---- MODULE Spec2Model ----
(***************************************************************************)
(* Model of tools/dataset_converters/acdc.py: the colour mapper            *)
(* ACDC_convert_from_color and the batch converter process_annotations.    *)
(*                                                                         *)
(* Two specifications share the module:                                    *)
(*   SpecConv  one call of ACDC_convert_from_color on any bounded image    *)
(*             with any of a few palettes, the loop over the palette       *)
(*             entries taken in every possible order;                      *)
(*   Spec      runs of main()/process_annotations over a small file        *)
(*             system, file by file, including failing files and a rerun.  *)
(***************************************************************************)
EXTENDS Integers, Sequences, FiniteSets, TLC

VARIABLES
    \* ---- one call of ACDC_convert_from_color (SpecConv) ----
    arr_3d,         \* the H x W x 3 input array
    palette,        \* the palette argument: colour -> class index
    todo,           \* palette keys the for loop has not visited yet
    arr_2d,         \* the H x W uint8 output array being filled
    hits,           \* per pixel, how many times line 37 assigned it
    cpc,            \* position in the function
    \* ---- a run of main() (Spec) ----
    src_dir,        \* args.src_dir
    out_dir,        \* args.out_dir
    dirs,           \* directories that exist
    files,          \* file path -> content
    pc,             \* position in process_annotations
    mode,           \* 1 = 'training', 2 = 'validation'
    src_path_list,  \* globbed paths the inner loop has not visited yet
    img_path,       \* the loop variable
    label,          \* result of mmcv.imread
    label_idx,      \* result of ACDC_convert_from_color
    runs,           \* how many times main() was started
    ioLog,          \* every file read or written, in order
    files0,         \* the file system when the first run started
    snap            \* the file system when the first run completed

cvars == <<arr_3d, palette, todo, arr_2d, hits, cpc>>
rvars == <<src_dir, out_dir, dirs, files, pc, mode, src_path_list, img_path,
           label, label_idx, runs, ioLog, files0, snap>>
vars == <<cvars, rvars>>

---------------------------------------------------------------------------
\* Bounds of the model.

\* largest number of pixels (H * W) of an image given to the colour mapper
MaxPixels == 4
\* how many times main() is run on the same tree
MaxRuns == 2

---------------------------------------------------------------------------
\* Colours, the palette and its inverse.

\* np.uint8 holds values modulo 2^8
UInt8Range == 256

C0 == <<0, 0, 0>>
C171 == <<171, 171, 171>>
C114 == <<114, 114, 114>>
C57 == <<57, 57, 57>>
\* colours outside the default palette: unrelated, and sharing one or two
\* channels with a palette colour
C9 == <<9, 9, 9>>
C171_171_0 == <<171, 171, 0>>

ACDC_palette_4 == (0 :> C0) @@ (1 :> C171) @@ (2 :> C114) @@ (4 :> C57)

ACDC_palette == (0 :> C0) @@ (1 :> C171) @@ (2 :> C114) @@ (3 :> C57)

Max(S) == CHOOSE x \in S : \A y \in S : y <= x

\* {tuple(v): k for k, v in pal.items()}: items are visited in insertion
\* order (0, 1, 2, 3) and a later k replaces an earlier one with the same v
InvertPalette(pal) ==
    [c \in {pal[k] : k \in DOMAIN pal} |->
        Max({k \in DOMAIN pal : pal[k] = c})]

ACDC_invert_palette == InvertPalette(ACDC_palette)

RECURSIVE SortedSeq(_)
SortedSeq(S) ==
    IF S = {} THEN <<>>
    ELSE LET m == CHOOSE x \in S : \A y \in S : x <= y
         IN <<m>> \o SortedSeq(S \ {m})

\* the keys of ACDC_invert_palette in the dict's iteration order: the order
\* in which the comprehension first inserted them
DefaultKeyOrder ==
    LET firstK(c) == CHOOSE k \in DOMAIN ACDC_palette :
                        /\ ACDC_palette[k] = c
                        /\ \A j \in DOMAIN ACDC_palette :
                              ACDC_palette[j] = c => k <= j
        ks == SortedSeq({firstK(c) : c \in DOMAIN ACDC_invert_palette})
    IN [i \in 1..Len(ks) |-> ACDC_palette[ks[i]]]

---------------------------------------------------------------------------
\* ACDC_convert_from_color.

Height(arr) == Len(arr)
Width(arr) == IF Len(arr) = 0 THEN 0 ELSE Len(arr[1])

ZerosSquare(arr) == [r \in 1..Height(arr) |-> [c \in 1..Height(arr) |-> 0]]

\* np.zeros((arr_3d.shape[0], arr_3d.shape[1]), dtype=np.uint8)
Zeros(arr) == [r \in 1..Height(arr) |-> [c \in 1..Width(arr) |-> 0]]

MaskAny(arr, rgb) ==
    [r \in 1..Height(arr) |-> [c \in 1..Width(arr) |->
        \E k \in 1..3 : arr[r][c][k] = rgb[k]]]

\* np.all(arr_3d == np.array(rgb).reshape(1, 1, 3), axis=2)
Mask(arr, rgb) ==
    [r \in 1..Height(arr) |-> [c \in 1..Width(arr) |->
        \A k \in 1..3 : arr[r][c][k] = rgb[k]]]

MaskHas(mask, r, c) == r \in DOMAIN mask /\ c \in DOMAIN mask[r] /\ mask[r][c]

StoreNext(class_id) == (class_id + 1) % UInt8Range

\* the value a uint8 array holds after class_id is stored in it
StoreU8(class_id) == class_id % UInt8Range

\* arr_2d[mask] = class_id: the positions outside the mask keep their value
Assign(a2, mask, class_id) ==
    [r \in DOMAIN a2 |-> [c \in DOMAIN a2[r] |->
        IF MaskHas(mask, r, c) THEN StoreU8(class_id) ELSE a2[r][c]]]

\* the for loop of lines 34-37 over the keys in the order `keys`
RECURSIVE ApplyAll(_, _, _, _)
ApplyAll(a2, arr, pal, keys) ==
    IF keys = <<>> THEN a2
    ELSE ApplyAll(Assign(a2, Mask(arr, Head(keys)), pal[Head(keys)]),
                  arr, pal, Tail(keys))

ACDC_convert_from_color(arr, pal, keys) == ApplyAll(Zeros(arr), arr, pal, keys)

---------------------------------------------------------------------------
\* SpecConv: one call, the loop taken one palette entry at a time.

PixelColours == {C0, C171, C114, C57, C9, C171_171_0}

Shapes == {hw \in (1..MaxPixels) \X (1..MaxPixels) : hw[1] * hw[2] <= MaxPixels}

Images == UNION {[1..hw[1] -> [1..hw[2] -> PixelColours]] : hw \in Shapes}

\* palettes a caller may pass: the default, an empty one, one whose colours
\* share channels with each other and reach the largest byte, and one with a
\* class index that does not fit a byte
EmptyPalette == [c \in {} |-> 0]
SharedPalette == (C171_171_0 :> 5) @@ (C171 :> 255)
WidePalette == (C9 :> 256) @@ (C0 :> 1)
Palettes == {ACDC_invert_palette, EmptyPalette, SharedPalette, WidePalette}

RunIdle ==
    /\ src_dir = <<>> /\ out_dir = <<>> /\ dirs = {} /\ files = <<>>
    /\ pc = "idle" /\ mode = 0 /\ src_path_list = {} /\ img_path = <<>>
    /\ label = <<>> /\ label_idx = <<>> /\ runs = 0 /\ ioLog = <<>>
    /\ files0 = <<>> /\ snap = <<>>

ConvInit ==
    /\ arr_3d \in Images
    /\ palette \in Palettes
    /\ todo = DOMAIN palette
    /\ arr_2d = <<>>
    /\ hits = <<>>
    /\ cpc = "alloc"
    /\ RunIdle

\* line 32
ConvAlloc ==
    /\ cpc = "alloc"
    /\ arr_2d' = Zeros(arr_3d)
    /\ hits' = Zeros(arr_3d)
    /\ cpc' = "loop"
    /\ UNCHANGED <<arr_3d, palette, todo, rvars>>

\* lines 34-37, one iteration, for whichever entry comes next
ConvApply ==
    /\ cpc = "loop"
    /\ \E rgb \in todo :
          LET mask == Mask(arr_3d, rgb) IN
          /\ arr_2d' = Assign(arr_2d, mask, palette[rgb])
          /\ hits' = [r \in DOMAIN hits |-> [c \in DOMAIN hits[r] |->
                         IF MaskHas(mask, r, c) THEN hits[r][c] + 1
                         ELSE hits[r][c]]]
          /\ todo' = todo \ {rgb}
    /\ UNCHANGED <<arr_3d, palette, cpc, rvars>>

\* line 37 under a NumPy that refuses an out-of-range Python integer
\* (OverflowError) instead of wrapping it
ConvOverflow ==
    /\ cpc = "loop"
    /\ \E rgb \in todo : palette[rgb] \notin 0..(UInt8Range - 1)
    /\ cpc' = "raised"
    /\ UNCHANGED <<arr_3d, palette, todo, arr_2d, hits, rvars>>

\* line 39
ConvReturn ==
    /\ cpc = "loop"
    /\ todo = {}
    /\ cpc' = "done"
    /\ UNCHANGED <<arr_3d, palette, todo, arr_2d, hits, rvars>>

ConvNext == ConvAlloc \/ ConvApply \/ ConvOverflow \/ ConvReturn

SpecConv == ConvInit /\ [][ConvNext]_vars

---------------------------------------------------------------------------
\* Paths and file names.  A name is the sequence of its characters and a
\* path the sequence of its components.

S_data == <<"d", "a", "t", "a">>
S_out == <<"o", "u", "t">>
S_training == <<"t", "r", "a", "i", "n", "i", "n", "g">>
S_validation == <<"v", "a", "l", "i", "d", "a", "t", "i", "o", "n">>
S_train == <<"t", "r", "a", "i", "n">>
S_val == <<"v", "a", "l">>
N_a == <<"a", ".", "p", "n", "g">>
N_b == <<"b", ".", "p", "n", "g">>
N_hidden == <<".", "h", ".", "p", "n", "g">>
N_z == <<"z", ".", "p", "n", "g">>
PngSuffix == <<".", "p", "n", "g">>

\* osp.join(d, name)
Join(d, name) == Append(d, name)
\* osp.basename(p)
Basename(p) == p[Len(p)]
Dirname(p) == SubSeq(p, 1, Len(p) - 1)

EndsWith(s, suf) ==
    /\ Len(s) >= Len(suf)
    /\ SubSeq(s, Len(s) - Len(suf) + 1, Len(s)) = suf

\* whether glob's '*.png' matches a name: the name ends in .png, and a name
\* that begins with a dot is matched only by a pattern that begins with one
GlobMatch(name) == EndsWith(name, PngSuffix) /\ name[1] # "."

\* glob.glob(osp.join(src_dir, mode, '*.png')): a flat listing of d; a
\* directory that does not exist lists nothing
Glob(fs, ds, d) ==
    IF d \notin ds THEN {}
    ELSE {p \in DOMAIN fs : Dirname(p) = d /\ GlobMatch(Basename(p))}

\* for mode in ['training', 'validation']
ModeName(m) == IF m = 1 THEN S_training ELSE S_validation

OutSplitSame(modeName) == modeName

OutSplitCrossed(modeName) == IF modeName = S_training THEN S_val ELSE S_train

\* 'train' if mode == 'training' else 'val'
OutSplit(modeName) == IF modeName = S_training THEN S_train ELSE S_val

SavePathInPlace(out, modeName, path) == path

\* osp.join(out_dir, 'train' if mode == 'training' else 'val', basename)
SavePath(out, modeName, path) ==
    Join(Join(out, OutSplit(modeName)), Basename(path))

MkdirTargetsTrainOnly(out) == {Join(out, S_train)}

\* the directories lines 50-51 ask for
MkdirTargets(out) == {Join(out, S_train), Join(out, S_val)}

\* mkdir_or_exist(d): d and its missing parents exist afterwards
MkdirOrExist(ds, d) == ds \cup {SubSeq(d, 1, k) : k \in 1..Len(d)}

---------------------------------------------------------------------------
\* File contents and image I/O.

RgbFile(px) == [kind |-> "rgb", px |-> px]
GrayFile(px) == [kind |-> "gray", px |-> px]
\* a path whose bytes cannot be read (no permission, a directory)
Unreadable == [kind |-> "unreadable", px |-> <<>>]
\* bytes that are no image
Undecodable == [kind |-> "undecodable", px |-> <<>>]
\* what a write that failed part-way leaves behind
Partial == [kind |-> "partial", px |-> <<>>]

None == [ok |-> FALSE, arr |-> <<>>]

\* mmcv.imread(img_path, channel_order='rgb'): a colour image comes back
\* as stored, a one-channel image with its value in all three channels,
\* and bytes that do not decode as None
Imread(content) ==
    CASE content.kind = "rgb" -> [ok |-> TRUE, arr |-> content.px]
      [] content.kind = "gray" ->
            [ok |-> TRUE,
             arr |-> [r \in DOMAIN content.px |->
                        [c \in DOMAIN content.px[r] |->
                            LET v == content.px[r][c][1] IN <<v, v, v>>]]]
      [] OTHER -> None

\* Image.fromarray(label_idx).save(...): a one-channel 8-bit image
Encode(a2) ==
    GrayFile([r \in DOMAIN a2 |-> [c \in DOMAIN a2[r] |-> <<a2[r][c]>>]])

OnErrorSkip == "loop"

\* nothing in process_annotations or main catches an exception: the run
\* ends where the exception is raised
OnError == "failed"

---------------------------------------------------------------------------
\* Spec: runs of main().

\* the 2 x 2 image of the specification's example
ImgA == << <<C0, C171>>, <<C114, C9>> >>
ImgB == << <<C57, C171_171_0>> >>
\* a label map that is already converted
ImgGray == << <<<<1>>, <<2>>>> >>
\* a file found in the output directory before the run
ImgOld == << <<<<7>>>> >>

Names == {N_a, N_b, N_hidden}

NameContents(n) ==
    CASE n = N_a -> {RgbFile(ImgA), Unreadable}
      [] n = N_b -> {RgbFile(ImgB), GrayFile(ImgGray), Undecodable}
      [] OTHER -> {RgbFile(ImgB)}

AllContents == UNION {NameContents(n) : n \in Names}

\* the listings a split directory may hold
Listings ==
    UNION {{f \in [S -> AllContents] : \A n \in S : f[n] \in NameContents(n)} :
           S \in SUBSET Names}

StaleListing == (N_z :> GrayFile(ImgOld)) @@ (N_a :> GrayFile(ImgOld))

OutDirs == {<<S_data>>, <<S_out>>, <<S_data, S_training>>}

TrainingDir == Join(src_dir, S_training)
ValidationDir == Join(src_dir, S_validation)
OutTrain == Join(out_dir, S_train)
OutVal == Join(out_dir, S_val)

FilesIn(fs, d) == {p \in DOMAIN fs : Dirname(p) = d}

\* the file system holding listing tr in d1, va in d2 and st in d3
TreeOf(d1, tr, d2, va, d3, st) ==
    LET ps == {Join(d1, n) : n \in DOMAIN tr}
              \cup {Join(d2, n) : n \in DOMAIN va}
              \cup {Join(d3, n) : n \in DOMAIN st}
    IN [p \in ps |->
          IF Dirname(p) = d1 THEN tr[Basename(p)]
          ELSE IF Dirname(p) = d2 THEN va[Basename(p)]
          ELSE st[Basename(p)]]

ConvIdle ==
    /\ arr_3d = <<>> /\ palette = <<>> /\ todo = {} /\ arr_2d = <<>>
    /\ hits = <<>> /\ cpc = "idle"

\* lines 92-98: the arguments are parsed and process_annotations is entered
Init ==
    /\ ConvIdle
    /\ src_dir = <<S_data>>
    /\ out_dir \in OutDirs
    /\ \E tr \in Listings, va \in Listings, stale \in BOOLEAN,
          hasRoot \in BOOLEAN, hasTr \in BOOLEAN, hasVa \in BOOLEAN :
          LET st == IF stale THEN StaleListing ELSE <<>>
              d1 == Join(src_dir, S_training)
              d2 == Join(src_dir, S_validation)
              d3 == Join(out_dir, S_train)
              need(b, d) == IF b THEN MkdirOrExist({}, d) ELSE {}
          IN /\ (~hasTr => tr = <<>>)
             /\ (~hasVa => va = <<>>)
             /\ (hasTr \/ hasVa => hasRoot)
             /\ files = TreeOf(d1, tr, d2, va, d3, st)
             /\ dirs = need(hasRoot, src_dir) \cup need(hasTr, d1)
                       \cup need(hasVa, d2) \cup need(stale, d3)
    /\ files0 = files
    /\ snap = <<>>
    /\ pc = "mkdirs"
    /\ mode = 1
    /\ src_path_list = {}
    /\ img_path = <<>>
    /\ label = None
    /\ label_idx = <<>>
    /\ runs = 1
    /\ ioLog = <<>>

Entry(op, path, src) == [op |-> op, path |-> path, src |-> src, run |-> runs]

FailOps == {"readfail", "convfail", "writefail"}

\* lines 50-51
Mkdirs ==
    /\ pc = "mkdirs"
    /\ dirs' = UNION {MkdirOrExist(dirs, d) : d \in MkdirTargets(out_dir)}
    /\ mode' = 1
    /\ pc' = "glob"
    /\ UNCHANGED <<cvars, src_dir, out_dir, files, src_path_list, img_path,
                   label, label_idx, runs, ioLog, files0, snap>>

\* lines 54-57
GlobMode ==
    /\ pc = "glob"
    /\ src_path_list' = Glob(files, dirs, Join(src_dir, ModeName(mode)))
    /\ pc' = "loop"
    /\ UNCHANGED <<cvars, src_dir, out_dir, dirs, files, mode, img_path,
                   label, label_idx, runs, ioLog, files0, snap>>

\* lines 59-61: the next path of the listing, in whatever order the file
\* system lists them, is read
ReadOk ==
    /\ pc = "loop"
    /\ \E p \in src_path_list :
          /\ files[p].kind # "unreadable"
          /\ img_path' = p
          /\ src_path_list' = src_path_list \ {p}
          /\ label' = Imread(files[p])
          /\ ioLog' = Append(ioLog, Entry("read", p, p))
    /\ pc' = "convert"
    /\ UNCHANGED <<cvars, src_dir, out_dir, dirs, files, mode, label_idx,
                   runs, files0, snap>>

\* line 61 raises
ReadFail ==
    /\ pc = "loop"
    /\ \E p \in src_path_list :
          /\ files[p].kind = "unreadable"
          /\ img_path' = p
          /\ src_path_list' = src_path_list \ {p}
          /\ ioLog' = Append(ioLog, Entry("readfail", p, p))
    /\ pc' = OnError
    /\ UNCHANGED <<cvars, src_dir, out_dir, dirs, files, mode, label,
                   label_idx, runs, files0, snap>>

\* line 64
ConvertOk ==
    /\ pc = "convert"
    /\ label.ok
    /\ label_idx' = ACDC_convert_from_color(label.arr, ACDC_invert_palette,
                                            DefaultKeyOrder)
    /\ pc' = "save"
    /\ UNCHANGED <<cvars, src_dir, out_dir, dirs, files, mode, src_path_list,
                   img_path, label, runs, ioLog, files0, snap>>

\* line 64 with label None: arr_3d.shape raises at line 32
ConvertFail ==
    /\ pc = "convert"
    /\ ~label.ok
    /\ ioLog' = Append(ioLog, Entry("convfail", img_path, img_path))
    /\ pc' = OnError
    /\ UNCHANGED <<cvars, src_dir, out_dir, dirs, files, mode, src_path_list,
                   img_path, label, label_idx, runs, files0, snap>>

\* lines 67-74
SaveOk ==
    /\ pc = "save"
    /\ LET save_path == SavePath(out_dir, ModeName(mode), img_path) IN
          /\ files' = [p \in DOMAIN files \cup {save_path} |->
                          IF p = save_path THEN Encode(label_idx)
                          ELSE files[p]]
          /\ ioLog' = Append(ioLog, Entry("write", save_path, img_path))
    /\ pc' = "loop"
    /\ UNCHANGED <<cvars, src_dir, out_dir, dirs, mode, src_path_list,
                   img_path, label, label_idx, runs, files0, snap>>

\* line 71 raises: the file is untouched, or is left incomplete
SaveFail ==
    /\ pc = "save"
    /\ LET save_path == SavePath(out_dir, ModeName(mode), img_path) IN
          /\ \/ files' = files
             \/ files' = [p \in DOMAIN files \cup {save_path} |->
                             IF p = save_path THEN Partial ELSE files[p]]
          /\ ioLog' = Append(ioLog, Entry("writefail", save_path, img_path))
    /\ pc' = OnError
    /\ UNCHANGED <<cvars, src_dir, out_dir, dirs, mode, src_path_list,
                   img_path, label, label_idx, runs, files0, snap>>

\* the inner loop ends: the next mode, or the return to main and line 100
ModeDone ==
    /\ pc = "loop"
    /\ src_path_list = {}
    /\ IF mode = 1
       THEN /\ mode' = 2
            /\ pc' = "glob"
            /\ snap' = snap
       ELSE /\ mode' = mode
            /\ pc' = "done"
            /\ snap' = IF runs = 1 THEN files ELSE snap
    /\ UNCHANGED <<cvars, src_dir, out_dir, dirs, files, src_path_list,
                   img_path, label, label_idx, runs, ioLog, files0>>

\* main() is started again on the tree the completed run left
Rerun ==
    /\ pc = "done"
    /\ runs < MaxRuns
    /\ runs' = runs + 1
    /\ pc' = "mkdirs"
    /\ mode' = 1
    /\ img_path' = <<>>
    /\ label' = None
    /\ label_idx' = <<>>
    /\ UNCHANGED <<cvars, src_dir, out_dir, dirs, files, src_path_list,
                   ioLog, files0, snap>>

Next ==
    \/ Mkdirs \/ GlobMode \/ ReadOk \/ ReadFail \/ ConvertOk \/ ConvertFail
    \/ SaveOk \/ SaveFail \/ ModeDone \/ Rerun

Spec == Init /\ [][Next]_vars

---------------------------------------------------------------------------
\* Properties of ACDC_convert_from_color, checked under SpecConv.

Rows(arr) == 1..Height(arr)
Cols(arr) == 1..Width(arr)
ByteValues == 0..(UInt8Range - 1)

RECURSIVE SetToSeq(_)
SetToSeq(S) ==
    IF S = {} THEN <<>>
    ELSE LET x == CHOOSE y \in S : TRUE IN <<x>> \o SetToSeq(S \ {x})

\* C1 as stated: for every palette and image, a pixel equal to a palette key
\* has the class index of that key as its output value.
C1_AnyPalette ==
    cpc = "done" =>
        \A r \in Rows(arr_3d), c \in Cols(arr_3d) :
            arr_3d[r][c] \in DOMAIN palette =>
                arr_2d[r][c] = palette[arr_3d[r][c]]

\* C1 amended: for every palette whose class indices fit the uint8 output
\* (0..255) and every image, a pixel whose RGB triple equals a palette key has
\* the class index of that key as its output value; the default palette maps
\* (0,0,0)->0, (171,171,171)->1, (114,114,114)->2, (57,57,57)->3.
C1_ExactMatch ==
    /\ ACDC_invert_palette = (C0 :> 0) @@ (C171 :> 1) @@ (C114 :> 2) @@ (C57 :> 3)
    /\ cpc = "done" =>
        \A r \in Rows(arr_3d), c \in Cols(arr_3d) :
            (/\ arr_3d[r][c] \in DOMAIN palette
             /\ palette[arr_3d[r][c]] \in ByteValues)
            => arr_2d[r][c] = palette[arr_3d[r][c]]

C1_Witness ==
    /\ cpc = "done"
    /\ palette = SharedPalette
    /\ \E r \in Rows(arr_3d), c \in Cols(arr_3d) :
          arr_3d[r][c] = C171 /\ arr_2d[r][c] = 255
    /\ \E r \in Rows(arr_3d), c \in Cols(arr_3d) :
          arr_3d[r][c] = C171_171_0 /\ arr_2d[r][c] = 5

\* C2: a pixel whose RGB triple is not a key of the palette, also when it
\* agrees with a palette colour in one or two channels, has output value 0;
\* the specification's 2 x 2 example converts to [[0,1],[2,0]]; and the
\* function raises only for a class index that does not fit a byte, never
\* because an image holds no palette colour.
C2_Default ==
    /\ ACDC_convert_from_color(<< <<C0, C171>>, <<C114, C9>> >>,
                               ACDC_invert_palette, DefaultKeyOrder)
          = << <<0, 1>>, <<2, 0>> >>
    /\ cpc = "done" =>
        \A r \in Rows(arr_3d), c \in Cols(arr_3d) :
            arr_3d[r][c] \notin DOMAIN palette => arr_2d[r][c] = 0
    /\ cpc = "raised" => \E k \in DOMAIN palette : palette[k] \notin ByteValues

C2_Witness ==
    /\ cpc = "done"
    /\ palette = ACDC_invert_palette
    /\ Height(arr_3d) * Width(arr_3d) >= 2
    /\ \A r \in Rows(arr_3d), c \in Cols(arr_3d) :
          arr_3d[r][c] \notin DOMAIN palette /\ arr_2d[r][c] = 0
    /\ \E r \in Rows(arr_3d), c \in Cols(arr_3d) : arr_3d[r][c] = C171_171_0

\* C5: the output array has exactly as many rows and columns as the input
\* image and holds one byte value per pixel.
C5_Shape ==
    cpc \in {"loop", "done"} =>
        /\ Len(arr_2d) = Len(arr_3d)
        /\ \A r \in Rows(arr_3d) :
              /\ Len(arr_2d[r]) = Len(arr_3d[r])
              /\ \A c \in 1..Len(arr_2d[r]) : arr_2d[r][c] \in ByteValues

C5_Witness ==
    /\ cpc = "done"
    /\ Height(arr_3d) = 2
    /\ Width(arr_3d) = 1
    /\ Height(arr_2d) = 2
    /\ \E r \in Rows(arr_2d) : arr_2d[r][1] # 0

\* C9: the colours of the palette are pairwise distinct, the masks of its
\* entries are disjoint (no output pixel is assigned more than once), and
\* whatever order the entries are applied in the output is the one a fixed
\* order gives.
C9_OrderIndependent ==
    /\ \A j, k \in DOMAIN ACDC_palette :
          j # k => ACDC_palette[j] # ACDC_palette[k]
    /\ cpc \in {"loop", "done"} =>
          \A r \in Rows(arr_3d), c \in Cols(arr_3d) : hits[r][c] <= 1
    /\ cpc = "done" =>
          arr_2d = ACDC_convert_from_color(arr_3d, palette,
                                           SetToSeq(DOMAIN palette))

C9_Witness ==
    /\ cpc = "done"
    /\ palette = ACDC_invert_palette
    /\ \E r1, r2 \in Rows(arr_3d), c1, c2 \in Cols(arr_3d) :
          /\ arr_2d[r1][c1] = 3 /\ hits[r1][c1] = 1
          /\ arr_2d[r2][c2] = 1 /\ hits[r2][c2] = 1

---------------------------------------------------------------------------
\* Properties of process_annotations, checked under Spec.

Writes == {i \in DOMAIN ioLog : ioLog[i].op = "write"}
LabelValues == {0, 1, 2, 3}

\* the files directly in d whose name ends in .png
PngFiles(fs, d) == {p \in FilesIn(fs, d) : EndsWith(Basename(p), PngSuffix)}

\* the files directly in d that the pattern *.png matches
StarPng(fs, d) == {p \in PngFiles(fs, d) : Basename(p)[1] # "."}

BaseNames(ps) == {Basename(p) : p \in ps}

\* the label map file the converter is to produce from a source file
Expected(content) ==
    Encode(ACDC_convert_from_color(Imread(content).arr, ACDC_invert_palette,
                                   DefaultKeyOrder))

SplitDir(m) == IF m = 1 THEN TrainingDir ELSE ValidationDir
SplitOut(m) == IF m = 1 THEN OutTrain ELSE OutVal
OutputOf(p) ==
    Join(IF Dirname(p) = TrainingDir THEN OutTrain ELSE OutVal, Basename(p))

FirstDone == pc = "done" /\ runs = 1
OutputsEmptyAtStart ==
    FilesIn(files0, OutTrain) = {} /\ FilesIn(files0, OutVal) = {}

NeverCrossed ==
    \A i \in Writes :
        /\ Basename(ioLog[i].path) = Basename(ioLog[i].src)
        /\ \E m \in {1, 2} : /\ Dirname(ioLog[i].src) = SplitDir(m)
                             /\ Dirname(ioLog[i].path) = SplitOut(m)

GrayPixelsIn(content, S) ==
    \A r \in DOMAIN content.px : \A c \in DOMAIN content.px[r] :
        content.px[r][c][1] \in S

\* C4: every pixel of every label map the converter computes and writes is
\* one of 0, 1, 2, 3, whatever colours the source image holds.
C4_Range ==
    /\ pc = "save" =>
          \A r \in DOMAIN label_idx : \A c \in DOMAIN label_idx[r] :
              label_idx[r][c] \in LabelValues
    /\ \A i \in Writes :
          files[ioLog[i].path].kind = "gray" =>
              GrayPixelsIn(files[ioLog[i].path], LabelValues)

C4_Witness ==
    \E i \in Writes :
        /\ files0[ioLog[i].src] = RgbFile(ImgB)
        /\ files[ioLog[i].path] = GrayFile(<< <<<<3>>, <<0>>>> >>)

LastEntry == ioLog[Len(ioLog)]

\* C6: a split whose directory is missing or holds no PNG is enumerated as
\* empty: no file of it is read and no output is written for it; the other
\* split is still converted in full, train/ and val/ both exist at the end,
\* and the run can fail only at a file of the other split.
C6_MissingSplit ==
    \A m \in {1, 2} :
        PngFiles(files0, SplitDir(m)) = {} =>
            /\ (pc = "loop" /\ mode = m) => src_path_list = {}
            /\ \A i \in DOMAIN ioLog :
                  /\ Dirname(ioLog[i].src) # SplitDir(m)
                  /\ Dirname(ioLog[i].path) # SplitOut(m)
            /\ FilesIn(files, SplitOut(m)) = FilesIn(files0, SplitOut(m))
            /\ pc = "done" =>
                  /\ \A p \in StarPng(files0, SplitDir(3 - m)) :
                        /\ OutputOf(p) \in DOMAIN files
                        /\ files[OutputOf(p)] = Expected(files0[p])
                  /\ Join(out_dir, S_train) \in dirs
                  /\ Join(out_dir, S_val) \in dirs
            /\ pc = "failed" =>
                  /\ Len(ioLog) > 0
                  /\ LastEntry.op \in FailOps
                  /\ Dirname(LastEntry.src) = SplitDir(3 - m)

C6_Witness ==
    /\ pc = "done"
    /\ TrainingDir \notin dirs
    /\ FilesIn(files, OutTrain) = {}
    /\ OutTrain \in dirs
    /\ Cardinality(StarPng(files0, ValidationDir)) = 2
    /\ Cardinality(FilesIn(files, OutVal)) = 2

\* C7: a file whose read, conversion or write fails ends the run in the
\* failed state at that file: the failure is the last thing the run does,
\* the files still in the listing (and, for a failure in training, every
\* validation file) are never read or written, and a run that had a
\* failure never completes.
C7_Fatal ==
    /\ \A i \in DOMAIN ioLog :
          ioLog[i].op \in FailOps => (i = Len(ioLog) /\ pc = "failed")
    /\ pc = "failed" =>
          /\ Len(ioLog) > 0
          /\ LastEntry.op \in FailOps
          /\ LastEntry.src = img_path
          /\ \A i \in DOMAIN ioLog :
                ioLog[i].run = runs =>
                    /\ ioLog[i].src \notin src_path_list
                    /\ mode = 1 => Dirname(ioLog[i].src) # ValidationDir
    /\ pc = "done" => \A i \in DOMAIN ioLog : ioLog[i].op \notin FailOps

C7_Witness ==
    /\ pc = "failed"
    /\ mode = 1
    /\ src_path_list # {}
    /\ StarPng(files0, ValidationDir) # {}
    /\ LastEntry.op = "convfail"
    /\ Len(ioLog) = 2

Sources == StarPng(files0, TrainingDir) \cup StarPng(files0, ValidationDir)

\* C8: two source files holding the same image are converted to identical
\* label maps, and a second run on the unchanged tree, also with out-dir
\* equal to src-dir, leaves every file with the name and content it had
\* after the first run.
C8_Rerun ==
    /\ (pc = "done" /\ runs >= 2) => files = snap
    /\ pc = "done" =>
          \A p, q \in Sources :
              files0[p] = files0[q] =>
                  /\ {OutputOf(p), OutputOf(q)} \subseteq DOMAIN files
                  /\ files[OutputOf(p)] = files[OutputOf(q)]

C8_Witness ==
    /\ pc = "done"
    /\ runs = 2
    /\ out_dir = src_dir
    /\ Len(ioLog) > 0
    /\ LastEntry.run = 2
    /\ LastEntry.op = "write"
    /\ \E p, q \in Sources :
          /\ p # q
          /\ files0[p] = RgbFile(ImgA)
          /\ files0[q] = RgbFile(ImgA)
          /\ files[OutputOf(q)] = GrayFile(<< <<<<0>>, <<1>>>>, <<<<2>>, <<0>>>> >>)

\* C10: the files directly in <src-dir>/training and <src-dir>/validation
\* and their contents stay as they were when the run started; only files
\* in <out-dir>/train and <out-dir>/val are created or changed, also when
\* out-dir is src-dir; and the array that was read is still what the file
\* holds after the conversion.
C10_InputsUnchanged ==
    /\ \A m \in {1, 2} :
          /\ FilesIn(files, SplitDir(m)) = FilesIn(files0, SplitDir(m))
          /\ \A p \in FilesIn(files0, SplitDir(m)) : files[p] = files0[p]
    /\ DOMAIN files0 \subseteq DOMAIN files
    /\ \A p \in DOMAIN files :
          (p \notin DOMAIN files0 \/ files[p] # files0[p])
              => Dirname(p) \in {OutTrain, OutVal}
    /\ \A i \in DOMAIN ioLog :
          ioLog[i].op \in {"write", "writefail"}
              => Dirname(ioLog[i].path) \in {OutTrain, OutVal}
    /\ pc = "save" => label = Imread(files0[img_path])

C10_Witness ==
    /\ pc = "done"
    /\ out_dir = src_dir
    /\ Cardinality(Writes) >= 3
    /\ files # files0
    /\ \E p \in DOMAIN files0 : Dirname(p) = OutTrain /\ files[p] # files0[p]

====
